---------------------------- MODULE Spec2Model ----------------------------
(***************************************************************************)
(* zstd-lines (src/src/lib.rs): par_zstd_lines runs one job per path of a  *)
(* vector; each job opens a zstd decoder and feeds the decompressed lines  *)
(* to a handler, either with BufReader::lines (plain files) or with the    *)
(* 512-byte block loop of process_tar_zstd_file (files whose stem ends in  *)
(* ".tar").                                                                *)
(*                                                                         *)
(* Bytes are numbers 0..255, byte strings are sequences of bytes, paths    *)
(* are sequences of one-character strings.  A job is identified by its     *)
(* index in the vector.                                                    *)
(***************************************************************************)
EXTENDS Integers, Sequences, FiniteSets, TLC

(***************************************************************************)
(* Bounds of the model.                                                    *)
(***************************************************************************)
\* Reads that return data, per decoder, before it must end or fail.
MaxReads == 3
\* Read errors reported per job before the model stops counting them (a plain
\* job on a decoder that keeps failing reports without end).
MaxIoErrors == 2

(***************************************************************************)
(* Program constants.                                                      *)
(***************************************************************************)
TAR_BLOCK_SIZE == 512
\* block[257..262]: the offset of the magic in a tar header
MagicOffset == 257
\* b'\n'
NL == 10
\* '\r', which BufRead::lines strips before a stripped '\n'
CR == 13

\* b"ustar"
ustar_magic == <<117, 115, 116, 97, 114>>

(***************************************************************************)
(* Byte strings.                                                           *)
(***************************************************************************)
\* The first index i >= from with s[i] = NL among the first n bytes, or 0.
NextNewline(s, from, n) ==
    LET hits == {i \in from..n : s[i] = NL}
    IN  IF hits = {} THEN 0 ELSE CHOOSE i \in hits : \A k \in hits : i <= k

IsCont(b) == b >= 128 /\ b <= 191

\* The length of the UTF-8 sequence a lead byte opens; 0 for a byte that opens none.
Utf8Len(b) ==
    IF b < 128 THEN 1
    ELSE IF b >= 194 /\ b <= 223 THEN 2
    ELSE IF b >= 224 /\ b <= 239 THEN 3
    ELSE IF b >= 240 /\ b <= 244 THEN 4
    ELSE 0

\* The range the byte after lead byte b must lie in (no overlong form, no surrogate).
SecondOk(b, c) ==
    IF b = 224 THEN c >= 160 /\ c <= 191
    ELSE IF b = 237 THEN c >= 128 /\ c <= 159
    ELSE IF b = 240 THEN c >= 144 /\ c <= 191
    ELSE IF b = 244 THEN c >= 128 /\ c <= 143
    ELSE IsCont(c)

\* String::from_utf8(s).is_ok(): every byte is a lead byte followed by its
\* continuation bytes, or a continuation byte of the lead byte before it.
from_utf8_ok(s) ==
    \A i \in 1..Len(s) :
        IF IsCont(s[i])
        THEN \E k \in 1..3 :
                /\ i - k >= 1
                /\ Utf8Len(s[i - k]) > k
                /\ \A m \in (i - k + 1)..(i - 1) : IsCont(s[m])
        ELSE /\ Utf8Len(s[i]) >= 1
             /\ i + Utf8Len(s[i]) - 1 <= Len(s)
             /\ \A m \in (i + 1)..(i + Utf8Len(s[i]) - 1) : IsCont(s[m])
             /\ Utf8Len(s[i]) >= 2 => SecondOk(s[i], s[i + 1])

\* A line reader that splits at "\n" alone and leaves a "\r" before it in place.
StripNewlineOnly(s) ==
    IF Len(s) >= 1 /\ s[Len(s)] = NL THEN SubSeq(s, 1, Len(s) - 1) ELSE s

\* str::Lines / BufRead::lines: strip the final "\n", then a final "\r".
StripLineEnd(s) ==
    IF Len(s) >= 1 /\ s[Len(s)] = NL
    THEN LET t == SubSeq(s, 1, Len(s) - 1)
         IN  IF Len(t) >= 1 /\ t[Len(t)] = CR THEN SubSeq(t, 1, Len(t) - 1) ELSE t
    ELSE s

(***************************************************************************)
(* Paths: Path::file_stem, OsStr::to_str and str::ends_with as line 82-83  *)
(* use them.  NoStem stands for None; "?" stands for a unit that is not    *)
(* valid Unicode.                                                          *)
(***************************************************************************)
NoStem == <<"<none>">>

EndsWith(s, suffix) ==
    /\ Len(s) >= Len(suffix)
    /\ SubSeq(s, Len(s) - Len(suffix) + 1, Len(s)) = suffix

\* The last index of character c in s, or 0.
LastIndexOf(s, c) ==
    LET hits == {i \in 1..Len(s) : s[i] = c}
    IN  IF hits = {} THEN 0 ELSE CHOOSE i \in hits : \A k \in hits : i >= k

\* Path::file_name: the last component, unless the path ends in ".." or has none.
\* Trailing separators and "." components are not part of it.
RECURSIVE TrimTail(_)
TrimTail(p) ==
    IF Len(p) >= 1 /\ p[Len(p)] = "/" THEN TrimTail(SubSeq(p, 1, Len(p) - 1))
    ELSE IF EndsWith(p, <<"/", ".">>) THEN TrimTail(SubSeq(p, 1, Len(p) - 2))
    ELSE p

file_name(p) ==
    LET t == TrimTail(p)
        name == SubSeq(t, LastIndexOf(t, "/") + 1, Len(t))
    IN  IF name = <<>> \/ name = <<".">> \/ name = <<".", ".">> THEN NoStem ELSE name

\* Path::file_stem: the file name up to its last '.', the whole name when it
\* has no '.' or only a leading one.
file_stem(p) ==
    LET name == file_name(p)
        dot == LastIndexOf(name, ".")
    IN  IF name = NoStem THEN NoStem
        ELSE IF dot <= 1 THEN name
        ELSE SubSeq(name, 1, dot - 1)

\* OsStr::to_str
to_str(s) ==
    IF s = NoStem \/ \E i \in 1..Len(s) : s[i] = "?" THEN NoStem ELSE s

TarSuffix == <<".", "t", "a", "r">>

\* Lines 82-83: the mode a path is dispatched to.
ModeOf(p) ==
    LET stem == to_str(file_stem(p))
    IN  IF stem = NoStem THEN "none"
        ELSE IF EndsWith(stem, TarSuffix) THEN "tar"
        ELSE "plain"

\* The magic looked for one byte early (block[256..261]).
is_tar_header_one_early(block) ==
    IF Len(block) # TAR_BLOCK_SIZE THEN FALSE
    ELSE SubSeq(block, MagicOffset, MagicOffset + 4) = ustar_magic

(***************************************************************************)
(* Line 181-187.                                                           *)
(***************************************************************************)
is_tar_header(block) ==
    IF Len(block) # TAR_BLOCK_SIZE THEN FALSE
    ELSE SubSeq(block, MagicOffset + 1, MagicOffset + 5) = ustar_magic


(***************************************************************************)
(* What a decoder can return from one read: the byte strings the model     *)
(* draws the decompressed streams from.  A read returns 1..512 bytes.      *)
(***************************************************************************)
\* A 512-byte block: prefix, filler 'x', and suffix, with `mid` laid over it.
Block(prefix, mid, suffix) ==
    [i \in 1..TAR_BLOCK_SIZE |->
        IF i <= Len(prefix) THEN prefix[i]
        ELSE IF i > TAR_BLOCK_SIZE - Len(suffix)
             THEN suffix[i - (TAR_BLOCK_SIZE - Len(suffix))]
        ELSE IF i \in DOMAIN mid THEN mid[i]
        ELSE 120]

\* A tar header: NUL bytes with "ustar" at offset 257.
Hdr ==
    [i \in 1..TAR_BLOCK_SIZE |->
        IF i > MagicOffset /\ i <= MagicOffset + 5 THEN ustar_magic[i - MagicOffset]
        ELSE 0]

\* "ab\n\ncd\n" x.. "tar" (at offsets 259..261) x.. "\nef": a payload block
\* ending inside a line.
PayA == Block(<<97, 98, 10, 10, 99, 100, 10>>,
              (260 :> 116) @@ (261 :> 97) @@ (262 :> 114),
              <<10, 101, 102>>)
\* "alpha\nbeta"
AlphaBeta == <<97, 108, 112, 104, 97, 10, 98, 101, 116, 97>>
\* 259 bytes: "gh\n" x.. "us" (at offsets 257..258)
ShortUs ==
    [i \in 1..(MagicOffset + 2) |->
        IF i = 1 THEN 103 ELSE IF i = 2 THEN 104 ELSE IF i = 3 THEN 10
        ELSE IF i = MagicOffset + 1 THEN 117
        ELSE IF i = MagicOffset + 2 THEN 115
        ELSE 120]
\* "a\xFFb\ncd\n": a line that is not UTF-8, then a line that is
BadLine == <<97, 255, 98, 10, 99, 100, 10>>
\* "p\xC3" and "\xA9q\n": a two-byte character cut by the read boundary ("p\xC3"
\* alone is not UTF-8)
SplitLead == <<112, 195>>
SplitCont == <<169, 113, 10>>
\* "x\r\ny\n"
CrLf == <<120, 13, 10, 121, 10>>
\* "x\ny\n"
XY == <<120, 10, 121, 10>>

Reads == <<Hdr, PayA, AlphaBeta, ShortUs, BadLine, SplitLead, SplitCont, CrLf, XY>>

ReadIds == DOMAIN Reads

\* The id of a read of the menu.
IdOf(data) == CHOOSE r \in ReadIds : Reads[r] = data

\* The decompressed bytes a decoder has returned, given the reads it made.
RECURSIVE Stream(_)
Stream(h) == IF h = <<>> THEN <<>> ELSE Stream(SubSeq(h, 1, Len(h) - 1)) \o Reads[h[Len(h)]]

RECURSIVE StreamLen(_)
StreamLen(h) == IF h = <<>> THEN 0 ELSE StreamLen(SubSeq(h, 1, Len(h) - 1)) + Len(Reads[h[Len(h)]])

(***************************************************************************)
(* Paths the vectors are drawn from.                                       *)
(***************************************************************************)
PathTar == <<"a", ".", "t", "a", "r", ".", "z", "s", "t">>
PathPlain == <<"b", ".", "z", "s", "t">>
\* "c.tar": its stem is "c"
PathBareTar == <<"c", ".", "t", "a", "r">>
\* "d/.tar.zst": its stem is ".tar"
PathDotTar == <<"d", "/", ".", "t", "a", "r", ".", "z", "s", "t">>
\* "..": no file name
PathDotDot == <<".", ".">>
\* a file name that is not valid Unicode
PathNotUnicode == <<"e", "?", ".", "z", "s", "t">>

(***************************************************************************)
(* State.                                                                  *)
(***************************************************************************)
VARIABLES
    paths,       \* the vector par_zstd_lines is called on
    env,         \* what the decoders may return: [menu: read ids, reads: how many]
    pc,          \* per job: "queued", "open", "read", "scan", "lines", "done"
    mode,        \* per job: "unset", then "tar", "plain" or "none" (line 82-93)
    dec,         \* per job's decoder: "live", "eof", "broken"
    hist,        \* per job: the reads its decoder returned so far (read ids)
    buffer,      \* per job: buffer (line 126)
    bytes_read,  \* per job: bytes_read (line 130)
    offset,      \* per job: offset (line 148)
    remainder,   \* per job: remainder (line 127)
    pending,     \* per job: bytes the BufReader holds and lines() has not returned
    cut,         \* per job: stream offset where the line being collected starts
    drops,       \* per job: the stream offsets at which a dropped line ended
    calls,       \* the handler's calls, in the order they were made
    diag         \* what was printed to stderr, in order

vars == <<paths, env, pc, mode, dec, hist, buffer, bytes_read, offset,
          remainder, pending, cut, drops, calls, diag>>

\* The indices a vector can have; Jobs are those of the vector at hand.
MaxJobs == 3
JobIds == 1..MaxJobs
Jobs == DOMAIN paths

\* line_handler(line, path), with the stream offsets the line lies between:
\* the line is the bytes after offset `from` up to offset `to`.
Call(line, j, from, to) == [line |-> line, job |-> j, from |-> from, to |-> to]

\* line_handler(line, path) is called: the call joins the calls made so far.
DeliverReversed(cs, c) == <<c>> \o cs
Deliver(cs, c) == Append(cs, c)

\* eprintln! of line 86, 91 ("failed") or 111 ("line"), with the error's cause:
\* "open" (File::open, Decoder::new), "io" (a read of the decoder), "utf8".
Diag(kind, j, cause) == [kind |-> kind, job |-> j, cause |-> cause]

\* The calls made for job j, in order.
CallsOf(j) == SelectSeq(calls, LAMBDA c : c.job = j)
DiagsOf(j) == SelectSeq(diag, LAMBDA d : d.job = j)
IoErrors(j) == SelectSeq(diag, LAMBDA d : d.job = j /\ d.cause = "io")

InitJobs(vectors, menus, reads) ==
    /\ paths \in vectors
    /\ env \in [menu : menus, reads : {reads}]
    /\ pc = [j \in DOMAIN paths |-> "queued"]
    /\ mode = [j \in DOMAIN paths |-> "unset"]
    /\ dec = [j \in DOMAIN paths |-> "live"]
    /\ hist = [j \in DOMAIN paths |-> <<>>]
    /\ buffer = [j \in DOMAIN paths |-> [i \in 1..TAR_BLOCK_SIZE |-> 0]]
    /\ bytes_read = [j \in DOMAIN paths |-> 0]
    /\ offset = [j \in DOMAIN paths |-> 0]
    /\ remainder = [j \in DOMAIN paths |-> <<>>]
    /\ pending = [j \in DOMAIN paths |-> <<>>]
    /\ cut = [j \in DOMAIN paths |-> 0]
    /\ drops = [j \in DOMAIN paths |-> {}]
    /\ calls = <<>>
    /\ diag = <<>>

\* One file at a time, every read the decoder can return.
Init == InitJobs({<<PathTar>>, <<PathPlain>>, <<PathDotDot>>}, {ReadIds}, MaxReads)

(***************************************************************************)
(* par_zstd_lines, lines 80-95: the closure run for each path.             *)
(***************************************************************************)
\* Lines 81-83: the mode is chosen from the path alone; a path without a
\* Unicode stem falls out of the `if let` and the closure returns.
Dispatch(j) ==
    /\ j \in Jobs
    /\ pc[j] = "queued"
    /\ mode' = [mode EXCEPT ![j] = ModeOf(paths[j])]
    /\ pc' = [pc EXCEPT ![j] = IF ModeOf(paths[j]) = "none" THEN "done" ELSE "open"]
    /\ UNCHANGED <<paths, env, dec, hist, buffer, bytes_read, offset, remainder,
                   pending, cut, drops, calls, diag>>

\* Lines 104-106 and 123-127: File::open and Decoder::new succeed.
OpenOk(j) ==
    /\ j \in Jobs
    /\ pc[j] = "open"
    /\ pc' = [pc EXCEPT ![j] = IF mode[j] = "tar" THEN "read" ELSE "lines"]
    /\ UNCHANGED <<paths, env, mode, dec, hist, buffer, bytes_read, offset,
                   remainder, pending, cut, drops, calls, diag>>

\* Lines 104-105 and 123-124 with `?`, reported at line 86 or 91.
OpenFail(j) ==
    /\ j \in Jobs
    /\ pc[j] = "open"
    /\ pc' = [pc EXCEPT ![j] = "done"]
    /\ dec' = [dec EXCEPT ![j] = "broken"]
    /\ diag' = Append(diag, Diag("failed", j, "open"))
    /\ UNCHANGED <<paths, env, mode, hist, buffer, bytes_read, offset,
                   remainder, pending, cut, drops, calls>>


(***************************************************************************)
(* process_tar_zstd_file, lines 129-177.                                   *)
(***************************************************************************)
\* Lines 139-144 and 171-175: the remainder, sent as a line when it is not
\* empty and is UTF-8.  `to` is the stream offset the remainder ends at.
FlushCalls(j, to) ==
    IF remainder[j] # <<>> /\ from_utf8_ok(remainder[j])
    THEN Deliver(calls, Call(remainder[j], j, cut[j], to))
    ELSE calls

FlushDrops(j, boundary) ==
    IF remainder[j] # <<>> /\ ~from_utf8_ok(remainder[j])
    THEN drops[j] \cup {boundary}
    ELSE drops[j]

\* The header branch without remainder.clear().
HeaderBranchKeepsRemainder(j, end, n) ==
    /\ calls' = FlushCalls(j, end - n)
    /\ drops' = [drops EXCEPT ![j] = FlushDrops(j, end)]
    /\ cut' = [cut EXCEPT ![j] = end]
    /\ pc' = [pc EXCEPT ![j] = "read"]
    /\ UNCHANGED <<offset, remainder>>

\* Lines 136-146: the branch taken when is_tar_header(&buffer) holds after a
\* read that brought the stream to offset `end`.
HeaderBranch(j, end, n) ==
    /\ calls' = FlushCalls(j, end - n)
    /\ drops' = [drops EXCEPT ![j] = FlushDrops(j, end)]
    /\ remainder' = [remainder EXCEPT ![j] = <<>>]
    /\ cut' = [cut EXCEPT ![j] = end]
    /\ pc' = [pc EXCEPT ![j] = "read"]
    /\ UNCHANGED offset

\* Line 148: the block is scanned from offset 0.
PayloadBranch(j) ==
    /\ offset' = [offset EXCEPT ![j] = 0]
    /\ pc' = [pc EXCEPT ![j] = "scan"]
    /\ UNCHANGED <<calls, drops, remainder, cut>>

\* Lines 130-148: decoder.read(&mut buffer) returns the n bytes of read r,
\* which overwrite the first n bytes of the buffer; then the whole buffer is
\* classified.
TarRead(j, r) ==
    /\ j \in Jobs
    /\ pc[j] = "read"
    /\ dec[j] = "live"
    /\ Len(hist[j]) < env.reads
    /\ r \in env.menu
    /\ LET data == Reads[r]
           n == Len(data)
           buf == [i \in 1..TAR_BLOCK_SIZE |-> IF i <= n THEN data[i] ELSE buffer[j][i]]
       IN  /\ hist' = [hist EXCEPT ![j] = Append(@, r)]
           /\ buffer' = [buffer EXCEPT ![j] = buf]
           /\ bytes_read' = [bytes_read EXCEPT ![j] = n]
           /\ IF is_tar_header(buf)
              THEN HeaderBranch(j, StreamLen(hist[j]) + n, n)
              ELSE PayloadBranch(j)
    /\ UNCHANGED <<paths, env, mode, dec, pending, diag>>

\* The line the scan sends at the newline at buffer index i (lines 153-158).
LineAt(j, i) == remainder[j] \o SubSeq(buffer[j], offset[j] + 1, i - 1)

\* The scan with remainder.clear() moved into the `if let Ok(line)` of line 156.
TarLineClearsOnSuccessOnly(j) ==
    /\ j \in Jobs
    /\ pc[j] = "scan"
    /\ LET i == NextNewline(buffer[j], offset[j] + 1, bytes_read[j])
           at == StreamLen(hist[j]) - bytes_read[j] + i
       IN  /\ i # 0
           /\ calls' = IF from_utf8_ok(LineAt(j, i))
                       THEN Deliver(calls, Call(LineAt(j, i), j, cut[j], at - 1))
                       ELSE calls
           /\ drops' = [drops EXCEPT ![j] =
                           IF from_utf8_ok(LineAt(j, i)) THEN @ ELSE @ \cup {at}]
           /\ remainder' = [remainder EXCEPT ![j] =
                               IF from_utf8_ok(LineAt(j, i)) THEN <<>> ELSE @]
           /\ offset' = [offset EXCEPT ![j] = i]
           /\ cut' = [cut EXCEPT ![j] = at]
    /\ UNCHANGED <<paths, env, pc, mode, dec, hist, buffer, bytes_read, pending, diag>>

\* Lines 150-161: the scan reaches the next newline of the bytes read, at
\* index i; the line is the remainder and the bytes since `offset`.
TarLine(j) ==
    /\ j \in Jobs
    /\ pc[j] = "scan"
    /\ LET i == NextNewline(buffer[j], offset[j] + 1, bytes_read[j])
           at == StreamLen(hist[j]) - bytes_read[j] + i
       IN  /\ i # 0
           /\ calls' = IF from_utf8_ok(LineAt(j, i))
                       THEN Deliver(calls, Call(LineAt(j, i), j, cut[j], at - 1))
                       ELSE calls
           /\ drops' = [drops EXCEPT ![j] =
                           IF from_utf8_ok(LineAt(j, i)) THEN @ ELSE @ \cup {at}]
           /\ remainder' = [remainder EXCEPT ![j] = <<>>]
           /\ offset' = [offset EXCEPT ![j] = i]
           /\ cut' = [cut EXCEPT ![j] = at]
    /\ UNCHANGED <<paths, env, pc, mode, dec, hist, buffer, bytes_read, pending, diag>>

\* The store starting one byte early, at the newline the scan stopped at.
TarStoreFromNewline(j) ==
    /\ j \in Jobs
    /\ pc[j] = "scan"
    /\ NextNewline(buffer[j], offset[j] + 1, bytes_read[j]) = 0
    /\ remainder' = [remainder EXCEPT ![j] =
                        IF offset[j] < bytes_read[j]
                        THEN @ \o SubSeq(buffer[j], IF offset[j] = 0 THEN 1 ELSE offset[j],
                                         bytes_read[j])
                        ELSE @]
    /\ pc' = [pc EXCEPT ![j] = "read"]
    /\ UNCHANGED <<paths, env, mode, dec, hist, buffer, bytes_read, offset,
                   pending, cut, drops, calls, diag>>

\* Lines 164-167: no newline is left; the bytes after `offset` join the remainder.
TarStore(j) ==
    /\ j \in Jobs
    /\ pc[j] = "scan"
    /\ NextNewline(buffer[j], offset[j] + 1, bytes_read[j]) = 0
    /\ remainder' = [remainder EXCEPT ![j] =
                        IF offset[j] < bytes_read[j]
                        THEN @ \o SubSeq(buffer[j], offset[j] + 1, bytes_read[j])
                        ELSE @]
    /\ pc' = [pc EXCEPT ![j] = "read"]
    /\ UNCHANGED <<paths, env, mode, dec, hist, buffer, bytes_read, offset,
                   pending, cut, drops, calls, diag>>

\* Lines 132-134 and 170-177: the read returns 0; the remainder is the last line.
TarEof(j) ==
    /\ j \in Jobs
    /\ pc[j] = "read"
    /\ dec[j] = "live"
    /\ dec' = [dec EXCEPT ![j] = "eof"]
    /\ calls' = FlushCalls(j, StreamLen(hist[j]))
    /\ drops' = [drops EXCEPT ![j] = FlushDrops(j, StreamLen(hist[j]))]
    /\ remainder' = [remainder EXCEPT ![j] = <<>>]
    /\ cut' = [cut EXCEPT ![j] = StreamLen(hist[j])]
    /\ pc' = [pc EXCEPT ![j] = "done"]
    /\ UNCHANGED <<paths, env, mode, hist, buffer, bytes_read, offset, pending, diag>>

\* Line 130 with `?`: the read fails, the function returns the error (the
\* remainder is dropped with it) and line 86 reports it.
TarErr(j) ==
    /\ j \in Jobs
    /\ pc[j] = "read"
    /\ dec[j] = "live"
    /\ dec' = [dec EXCEPT ![j] = "broken"]
    /\ diag' = Append(diag, Diag("failed", j, "io"))
    /\ remainder' = [remainder EXCEPT ![j] = <<>>]
    /\ pc' = [pc EXCEPT ![j] = "done"]
    /\ UNCHANGED <<paths, env, mode, hist, buffer, bytes_read, offset, pending,
                   cut, drops, calls>>

(***************************************************************************)
(* process_zstd_file, lines 106-115: BufReader::lines over the decoder.    *)
(* `pending` is what read_line has collected of the current line together  *)
(* with what the BufReader still holds.                                    *)
(***************************************************************************)
HasLine(j) == NextNewline(pending[j], 1, Len(pending[j])) # 0

\* The Err arm of line 111 without its eprintln!.
ReportNothing(j, cause) == diag

\* Line 111, counted up to MaxIoErrors read errors per job.
ReportLine(j, cause) ==
    IF cause = "io" /\ Len(IoErrors(j)) >= MaxIoErrors
    THEN diag
    ELSE Append(diag, Diag("line", j, cause))

\* read_until finds no newline in what is buffered and the BufReader fills
\* its buffer from the decoder, which returns read r.
PlainFill(j, r) ==
    /\ j \in Jobs
    /\ pc[j] = "lines"
    /\ dec[j] = "live"
    /\ ~HasLine(j)
    /\ Len(hist[j]) < env.reads
    /\ r \in env.menu
    /\ hist' = [hist EXCEPT ![j] = Append(@, r)]
    /\ pending' = [pending EXCEPT ![j] = @ \o Reads[r]]
    /\ UNCHANGED <<paths, env, pc, mode, dec, buffer, bytes_read, offset,
                   remainder, cut, drops, calls, diag>>

\* Lines 108-112: lines() returns the bytes up to the next newline, without
\* the line end, or an InvalidData error when they are not UTF-8.
PlainLine(j) ==
    /\ j \in Jobs
    /\ pc[j] = "lines"
    /\ HasLine(j)
    /\ LET i == NextNewline(pending[j], 1, Len(pending[j]))
           raw == SubSeq(pending[j], 1, i)
       IN  /\ IF from_utf8_ok(raw)
              THEN /\ calls' = Deliver(calls, Call(StripLineEnd(raw), j, cut[j], cut[j] + i - 1))
                   /\ UNCHANGED <<diag, drops>>
              ELSE /\ diag' = ReportLine(j, "utf8")
                   /\ drops' = [drops EXCEPT ![j] = @ \cup {cut[j] + i}]
                   /\ UNCHANGED calls
           /\ pending' = [pending EXCEPT ![j] = SubSeq(@, i + 1, Len(@))]
           /\ cut' = [cut EXCEPT ![j] = @ + i]
    /\ UNCHANGED <<paths, env, pc, mode, dec, hist, buffer, bytes_read, offset, remainder>>

\* Lines 108-115: the decoder returns 0; what is pending is the last line,
\* and the loop ends.
PlainEof(j) ==
    /\ j \in Jobs
    /\ pc[j] = "lines"
    /\ dec[j] \in {"live", "eof"}
    /\ ~HasLine(j)
    /\ dec' = [dec EXCEPT ![j] = "eof"]
    /\ IF pending[j] = <<>> THEN UNCHANGED <<calls, diag, drops>>
       ELSE IF from_utf8_ok(pending[j])
       THEN /\ calls' = Deliver(calls, Call(StripLineEnd(pending[j]), j, cut[j],
                                             cut[j] + Len(pending[j])))
            /\ UNCHANGED <<diag, drops>>
       ELSE /\ diag' = ReportLine(j, "utf8")
            /\ drops' = [drops EXCEPT ![j] = @ \cup {cut[j] + Len(pending[j])}]
            /\ UNCHANGED calls
    /\ pending' = [pending EXCEPT ![j] = <<>>]
    /\ cut' = [cut EXCEPT ![j] = @ + Len(pending[j])]
    /\ pc' = [pc EXCEPT ![j] = "done"]
    /\ UNCHANGED <<paths, env, mode, hist, buffer, bytes_read, offset, remainder>>

\* Lines 108-112: the decoder's read fails inside read_line; lines() returns
\* the error, the bytes collected for the line are lost, line 111 reports it
\* and the loop goes on.  The decoder either keeps failing ("broken") or
\* reports the end of the stream from then on ("eof").
PlainErr(j, after) ==
    /\ j \in Jobs
    /\ pc[j] = "lines"
    /\ dec[j] \in {"live", "broken"}
    /\ ~HasLine(j)
    /\ after \in (IF dec[j] = "live" THEN {"broken", "eof"} ELSE {"broken"})
    /\ dec' = [dec EXCEPT ![j] = after]
    /\ diag' = ReportLine(j, "io")
    /\ pending' = [pending EXCEPT ![j] = <<>>]
    /\ cut' = [cut EXCEPT ![j] = @ + Len(pending[j])]
    /\ UNCHANGED <<paths, env, pc, mode, hist, buffer, bytes_read, offset,
                   remainder, drops, calls>>

(***************************************************************************)
(* The jobs run in parallel (par_iter().for_each, line 80): any job may     *)
(* take the next step.                                                     *)
(***************************************************************************)
Next ==
    \E j \in JobIds :
        \/ Dispatch(j)
        \/ OpenOk(j)
        \/ OpenFail(j)
        \/ \E r \in ReadIds : TarRead(j, r)
        \/ TarLine(j)
        \/ TarStore(j)
        \/ TarEof(j)
        \/ TarErr(j)
        \/ \E r \in ReadIds : PlainFill(j, r)
        \/ PlainLine(j)
        \/ PlainEof(j)
        \/ \E after \in {"broken", "eof"} : PlainErr(j, after)

Spec == Init /\ [][Next]_vars

(***************************************************************************)
(* Several files at once.  The work distribution of par_iter is any        *)
(* interleaving of the jobs' steps.                                        *)
(***************************************************************************)
\* Reads that return data, per decoder, when several files are processed.
ParReads == 2

ParVectors ==
    { <<PathTar, PathPlain>>,
      <<PathPlain, PathTar, PathDotDot>>,
      <<PathDotTar, PathBareTar>>,
      <<PathNotUnicode, PathTar>> }

InitPar == InitJobs(ParVectors, {{IdOf(AlphaBeta)}}, ParReads)

SpecPar == InitPar /\ [][Next]_vars


(***************************************************************************)
(* Vocabulary of the properties.                                           *)
(***************************************************************************)
\* The lines the handler received for job j, in order.
LinesOf(j) == [k \in 1..Len(CallsOf(j)) |-> CallsOf(j)[k].line]

HasNewline(s) == NextNewline(s, 1, Len(s)) # 0

\* The last index of a newline in s, or 0.
LastNewline(s) ==
    LET hits == {i \in 1..Len(s) : s[i] = NL}
    IN  IF hits = {} THEN 0 ELSE CHOOSE i \in hits : \A k \in hits : i >= k

\* The bytes of s after its last newline, and those before its first.
TailOf(s) == SubSeq(s, LastNewline(s) + 1, Len(s))
HeadOf(s) == SubSeq(s, 1, NextNewline(s, 1, Len(s)) - 1)

\* The stream offsets read k of job j lies between.
ReadStart(j, k) == StreamLen(SubSeq(hist[j], 1, k - 1))
ReadEnd(j, k) == StreamLen(SubSeq(hist[j], 1, k))

\* Job j ran process_tar_zstd_file to the end of its stream.
TarFinished(j) == mode[j] = "tar" /\ pc[j] = "done" /\ dec[j] = "eof"
\* Job j ran process_zstd_file to the end of its stream, with no read error.
PlainFinished(j) ==
    mode[j] = "plain" /\ pc[j] = "done" /\ dec[j] = "eof" /\ IoErrors(j) = <<>>

(***************************************************************************)
(* C1.  Archive mode, stream = one header block, then "alpha\nbeta", then  *)
(* the end: the handler receives exactly "alpha" and then "beta".          *)
(* The code does not do this: the 10-byte read leaves "ustar" of the       *)
(* header in the buffer, the block is classified as a header and skipped.  *)
(***************************************************************************)
C1_AlphaBetaAfterHeader ==
    \A j \in Jobs :
        (TarFinished(j) /\ hist[j] = <<IdOf(Hdr), IdOf(AlphaBeta)>>)
            => LinesOf(j) = <<<<97, 108, 112, 104, 97>>, <<98, 101, 116, 97>>>>

(***************************************************************************)
(* C2.  Archive mode: when the buffer classified after a read carries      *)
(* "ustar" at offset 257, the step sends the pending remainder as one line *)
(* (when it is not empty and is UTF-8), sends nothing else, leaves the     *)
(* remainder empty and scans nothing; and no line the handler receives     *)
(* holds a byte of a 512-byte header block of the stream: every line is a  *)
(* run of stream bytes that lies before or after it.                       *)
(***************************************************************************)
HeaderStep(j) ==
    /\ pc[j] = "read"
    /\ Len(hist'[j]) = Len(hist[j]) + 1
    /\ is_tar_header(buffer'[j])

HeaderStepFlushes(j) ==
    /\ remainder'[j] = <<>>
    /\ pc'[j] = "read"
    /\ IF remainder[j] # <<>> /\ from_utf8_ok(remainder[j])
       THEN /\ Len(calls') = Len(calls) + 1
            /\ SubSeq(calls', 1, Len(calls)) = calls
            /\ calls'[Len(calls')].line = remainder[j]
            /\ calls'[Len(calls')].job = j
       ELSE calls' = calls

NoHeaderBytesInLines(j) ==
    \A n \in 1..Len(CallsOf(j)) :
        LET c == CallsOf(j)[n]
        IN  /\ c.line = SubSeq(Stream(hist[j]), c.from + 1, c.to)
            /\ \A k \in 1..Len(hist[j]) :
                   is_tar_header(Reads[hist[j][k]])
                       => (c.to <= ReadStart(j, k) \/ c.from >= ReadEnd(j, k))

C2_HeaderOmittedAndFlushes ==
    /\ [](\A j \in Jobs : mode[j] = "tar" => NoHeaderBytesInLines(j))
    /\ [][\A j \in Jobs : HeaderStep(j) => HeaderStepFlushes(j)]_vars

\* A header block was reached with a remainder pending, which became a line
\* ending where the header starts.
C2_Witness ==
    \E j \in Jobs : \E k \in 1..Len(hist[j]) : \E n \in 1..Len(CallsOf(j)) :
        /\ mode[j] = "tar"
        /\ is_tar_header(Reads[hist[j][k]])
        /\ CallsOf(j)[n].to = ReadStart(j, k)
        /\ CallsOf(j)[n].from < ReadStart(j, k)
        /\ remainder[j] = <<>>

(***************************************************************************)
(* C3.  Archive mode: when a 512-byte payload block ends inside a line and *)
(* the next block, payload too, holds the line's end, the handler receives *)
(* the line whole: the bytes after the first block's last newline followed *)
(* by the bytes before the second block's first newline.                   *)
(* The code breaks this when the second block is short and its bytes,      *)
(* together with bytes the first block left in the buffer, show "ustar".   *)
(***************************************************************************)
SplitLine(r1, r2) == TailOf(Reads[r1]) \o HeadOf(Reads[r2])

C3_SplitLineDeliveredWhole ==
    \A j \in Jobs :
        LET n == Len(hist[j])
        IN  (/\ mode[j] = "tar"
             /\ pc[j] \in {"read", "done"}
             /\ n >= 2
             /\ Len(Reads[hist[j][n - 1]]) = TAR_BLOCK_SIZE
             /\ ~is_tar_header(Reads[hist[j][n - 1]])
             /\ ~is_tar_header(Reads[hist[j][n]])
             /\ HasNewline(Reads[hist[j][n - 1]])
             /\ TailOf(Reads[hist[j][n - 1]]) # <<>>
             /\ HasNewline(Reads[hist[j][n]])
             /\ from_utf8_ok(SplitLine(hist[j][n - 1], hist[j][n])))
            => \E k \in 1..Len(CallsOf(j)) :
                   /\ CallsOf(j)[k].line = SplitLine(hist[j][n - 1], hist[j][n])
                   /\ CallsOf(j)[k].from < ReadEnd(j, n - 1)
                   /\ CallsOf(j)[k].to > ReadEnd(j, n - 1)

(***************************************************************************)
(* C4.  In both modes, when the stream ends without a newline, the bytes   *)
(* after its last newline, when they are UTF-8, are the line of the last   *)
(* call for the file; in Archive mode also when the last block read is     *)
(* shorter than 512 bytes.                                                 *)
(* The code loses them in Archive mode when the short last block is read   *)
(* over a header left in the buffer (C1).                                  *)
(***************************************************************************)
\* The trailing bytes of job j's stream: in Archive mode those of the last
\* block, which is a payload block that holds a newline.
EndsInOpenLine(j) ==
    /\ hist[j] # <<>>
    /\ LET last == Reads[hist[j][Len(hist[j])]]
       IN  /\ ~is_tar_header(last)
           /\ HasNewline(last)
           /\ TailOf(last) # <<>>
           /\ from_utf8_ok(TailOf(last))

C4_TrailingBytesDelivered ==
    \A j \in Jobs :
        ((TarFinished(j) \/ PlainFinished(j)) /\ EndsInOpenLine(j))
            => /\ CallsOf(j) # <<>>
               /\ CallsOf(j)[Len(CallsOf(j))].line = TailOf(Reads[hist[j][Len(hist[j])]])


(***************************************************************************)
(* C5.  Plain mode round trip: for a stream of valid text read to its end, *)
(* the lines the handler received, each followed by a newline, are the     *)
(* stream (with a newline added when the last line has none); and the      *)
(* stream "x\ny\n" yields exactly "x" and "y".                             *)
(* As stated this fails: lines() also strips a "\r" before the newline.    *)
(***************************************************************************)
RECURSIVE JoinLines(_)
JoinLines(ls) ==
    IF ls = <<>> THEN <<>>
    ELSE JoinLines(SubSeq(ls, 1, Len(ls) - 1)) \o ls[Len(ls)] \o <<NL>>

WithFinalNewline(s) == IF s = <<>> \/ s[Len(s)] = NL THEN s ELSE Append(s, NL)

\* s with every "\r\n" replaced by "\n".
RECURSIVE CrLfToLf(_)
CrLfToLf(s) ==
    LET i == NextNewline(s, 1, Len(s))
    IN  IF i = 0 THEN s
        ELSE (IF i >= 2 /\ s[i - 1] = CR
              THEN Append(SubSeq(s, 1, i - 2), NL)
              ELSE SubSeq(s, 1, i))
             \o CrLfToLf(SubSeq(s, i + 1, Len(s)))

ValidTextRead(j) == PlainFinished(j) /\ from_utf8_ok(Stream(hist[j]))

XYScenario(j) ==
    hist[j] = <<IdOf(XY)>> => LinesOf(j) = <<<<120>>, <<121>>>>

C5_PlainRoundTripExact ==
    \A j \in Jobs :
        ValidTextRead(j)
            => /\ JoinLines(LinesOf(j)) = WithFinalNewline(Stream(hist[j]))
               /\ XYScenario(j)

\* C5 as amended: the round trip reproduces the stream with every "\r\n"
\* replaced by "\n" (and a newline added when the last line has none).
C5_PlainRoundTripUpToCr ==
    \A j \in Jobs :
        ValidTextRead(j)
            => /\ JoinLines(LinesOf(j)) = WithFinalNewline(CrLfToLf(Stream(hist[j])))
               /\ XYScenario(j)

\* A plain file with a "\r\n" line end and an open last line was read to its end.
C5_Witness ==
    \E j \in Jobs :
        /\ ValidTextRead(j)
        /\ hist[j] = <<IdOf(CrLf), IdOf(AlphaBeta)>>
        /\ Len(LinesOf(j)) = 4

(***************************************************************************)
(* C6.  With several files processed at once, the calls made for one file  *)
(* are in the order of the file's stream: each call's line is a run of the *)
(* stream that starts at or after the end of the line of the call before   *)
(* it.  (Calls for different files interleave: C6_Witness.)                *)
(***************************************************************************)
\* The line of call c is the run of job j's stream between c.from and c.to
\* (in Plain mode possibly without the "\r" that ends the run).
LineIsStreamRun(j, c) ==
    LET run == SubSeq(Stream(hist[j]), c.from + 1, c.to)
    IN  \/ c.line = run
        \/ mode[j] = "plain" /\ run = Append(c.line, CR)

C6_PerFileStreamOrder ==
    \A j \in Jobs :
        /\ \A k \in 1..Len(CallsOf(j)) :
               /\ CallsOf(j)[k].from <= CallsOf(j)[k].to
               /\ LineIsStreamRun(j, CallsOf(j)[k])
        /\ \A k \in 1..(Len(CallsOf(j)) - 1) :
               CallsOf(j)[k].to < CallsOf(j)[k + 1].to
                   /\ CallsOf(j)[k].to <= CallsOf(j)[k + 1].from

\* A call for another file lies between two calls for one file.
C6_Witness ==
    \E a, b, c \in 1..Len(calls) :
        /\ a < b /\ b < c
        /\ calls[a].job = calls[c].job
        /\ calls[b].job # calls[a].job
        /\ calls[a].line # calls[c].line

(***************************************************************************)
(* C7.  Failure isolation: a step in which a file fails to open or its     *)
(* decoder fails is reported, ends that file's job and touches neither the *)
(* handler's calls nor any other job.                                      *)
(* The code does not end a Plain-mode job whose decoder fails (C8).        *)
(***************************************************************************)
JobState(k) ==
    <<pc[k], mode[k], dec[k], hist[k], buffer[k], bytes_read[k], offset[k],
      remainder[k], pending[k], cut[k], drops[k]>>

\* The step reports an open or read failure of job j.
FailureStep(j) ==
    /\ Len(diag') = Len(diag) + 1
    /\ diag'[Len(diag')].job = j
    /\ diag'[Len(diag')].cause \in {"open", "io"}

C7_FailureEndsOnlyItsJob ==
    [][\A j \in Jobs :
          FailureStep(j)
              => /\ pc'[j] = "done"
                 /\ calls' = calls
                 /\ \A k \in Jobs \ {j} : JobState(k)' = JobState(k)]_vars

(***************************************************************************)
(* C8.  In both modes a read error of the decoder is fatal to the job: the *)
(* step that meets it reports it and ends the job, no call for the file    *)
(* follows, and the calls made before stay.                                *)
(* The code does this in Archive mode only: process_zstd_file reports the  *)
(* error and asks lines() for the next line.                               *)
(***************************************************************************)
ReadErrorStep(j) ==
    /\ Len(diag') = Len(diag) + 1
    /\ diag'[Len(diag')].job = j
    /\ diag'[Len(diag')].cause = "io"

C8_ReadErrorEndsJob ==
    [][\A j \in Jobs :
          /\ ReadErrorStep(j) => (pc'[j] = "done" /\ calls' = calls)
          /\ IoErrors(j) # <<>>
                 => SelectSeq(calls', LAMBDA c : c.job = j) = CallsOf(j)]_vars

(***************************************************************************)
(* C9.  Every path of the vector is dispatched to exactly one of the two   *)
(* modes, from its name alone: Archive mode when its stem ends in ".tar",  *)
(* Plain mode otherwise; none is passed over.                              *)
(* The code passes over, without a report, a path that has no stem or      *)
(* whose stem is not Unicode.                                              *)
(***************************************************************************)
C9_EveryPathGetsAMode ==
    \A j \in Jobs :
        pc[j] # "queued"
            => /\ mode[j] \in {"tar", "plain"}
               /\ (mode[j] = "tar") = EndsWith(to_str(file_stem(paths[j])), TarSuffix)

(***************************************************************************)
(* C10.  Archive mode: a step that drops a line (not UTF-8, at a newline   *)
(* or at a header) sends nothing and leaves the remainder empty; from then *)
(* on the bytes held for the next line are exactly the stream bytes after  *)
(* the dropped line, and the line delivered next is exactly the stream     *)
(* bytes between the dropped line's end and its own end.                   *)
(***************************************************************************)
\* The bytes the job holds for lines not sent yet: the remainder, and while a
\* block is scanned the bytes of it after `offset`.
PendingBytes(j) ==
    IF pc[j] = "scan"
    THEN remainder[j] \o SubSeq(buffer[j], offset[j] + 1, bytes_read[j])
    ELSE remainder[j]

FreshAfterDrop(j) ==
    /\ (pc[j] \in {"read", "scan"} /\ cut[j] \in drops[j])
           => PendingBytes(j) = SubSeq(Stream(hist[j]), cut[j] + 1, StreamLen(hist[j]))
    /\ \A k \in 1..Len(CallsOf(j)) :
           CallsOf(j)[k].from \in drops[j]
               => CallsOf(j)[k].line =
                      SubSeq(Stream(hist[j]), CallsOf(j)[k].from + 1, CallsOf(j)[k].to)

DropStep(j) == mode[j] = "tar" /\ drops'[j] # drops[j]

C10_DropLeavesNoStaleBytes ==
    /\ [](\A j \in Jobs : mode[j] = "tar" => FreshAfterDrop(j))
    /\ [][\A j \in Jobs : DropStep(j) => (remainder'[j] = <<>> /\ calls' = calls)]_vars

\* A remainder that is not UTF-8 was dropped at a header, and the first line of
\* the payload block after the header was delivered with its own bytes.
C10_Witness ==
    \E j \in Jobs :
        /\ mode[j] = "tar"
        /\ hist[j] = <<IdOf(SplitLead), IdOf(Hdr), IdOf(PayA)>>
        /\ CallsOf(j) # <<>>
        /\ CallsOf(j)[1].from \in drops[j]
        /\ CallsOf(j)[1].line = <<97, 98>>


(***************************************************************************)
(* C11.  In both modes a line that is not UTF-8 is dropped locally: the    *)
(* step that drops it calls no handler, does not end the job (unless the   *)
(* stream ended with that line), and prints exactly one diagnostic naming  *)
(* the file in Plain mode and nothing in Archive mode; so a Plain job has  *)
(* one such diagnostic per dropped line and an Archive job has none.       *)
(***************************************************************************)
Utf8Diags(j) == SelectSeq(diag, LAMBDA d : d.job = j /\ d.cause = "utf8")

LineDropStep(j) == drops'[j] # drops[j]

DropIsLocal(j) ==
    /\ calls' = calls
    /\ pc'[j] = "done" => dec'[j] = "eof"
    /\ diag' = IF mode[j] = "plain" THEN Append(diag, Diag("line", j, "utf8")) ELSE diag

C11_LineDecodeFailureIsLocal ==
    /\ [](\A j \in Jobs :
             /\ mode[j] = "plain" => Len(Utf8Diags(j)) = Cardinality(drops[j])
             /\ mode[j] = "tar" => Utf8Diags(j) = <<>>)
    /\ [][\A j \in Jobs : LineDropStep(j) => DropIsLocal(j)]_vars

\* A Plain job dropped "a\xFFb", reported it once and went on to deliver "cd".
C11_Witness ==
    \E j \in Jobs :
        /\ mode[j] = "plain"
        /\ hist[j] = <<IdOf(BadLine)>>
        /\ Cardinality(drops[j]) = 1
        /\ DiagsOf(j) = <<Diag("line", j, "utf8")>>
        /\ LinesOf(j) = <<<<99, 100>>>>


(***************************************************************************)
(* C12.  Archive mode: a stream that is one 512-byte header block followed *)
(* by the end of the stream yields no handler call.                        *)
(***************************************************************************)
C12_HeaderOnlyYieldsNothing ==
    \A j \in Jobs :
        (TarFinished(j) /\ hist[j] = <<IdOf(Hdr)>>) => CallsOf(j) = <<>>

\* The header-only archive was read to its end.
C12_Witness ==
    \E j \in Jobs :
        /\ TarFinished(j)
        /\ hist[j] = <<IdOf(Hdr)>>
        /\ cut[j] = TAR_BLOCK_SIZE
        /\ diag = <<>>

(***************************************************************************)
(* C13.  A job runs until its stream is exhausted or until the first read  *)
(* error of its decoder, and not beyond: once a read error was met the job *)
(* has ended, so no job meets a second one.                                *)
(* In Plain mode the code goes on after the error and, on a decoder whose  *)
(* reads keep failing, loops without end (C8).                             *)
(***************************************************************************)
C13_JobEndsAtFirstReadError ==
    \A j \in Jobs :
        /\ IoErrors(j) # <<>> => pc[j] = "done"
        /\ Len(IoErrors(j)) <= 1


(***************************************************************************)
(* C14.  Archive mode against the reference splitting: for a stream of     *)
(* valid text read in full 512-byte blocks (the last one possibly          *)
(* shorter) and read to its end, the lines the handler received are the    *)
(* reference: drop the metadata blocks, and split each maximal run of      *)
(* payload blocks at every newline, keeping every piece but an empty last  *)
(* one.                                                                    *)
(* A short last block read after a metadata block is taken for a metadata  *)
(* block too (C1), so its lines are missing.                               *)
(***************************************************************************)
\* The pieces of s between newlines, without an empty last piece.
RECURSIVE SplitAll(_)
SplitAll(s) ==
    LET i == NextNewline(s, 1, Len(s))
    IN  IF i = 0 THEN (IF s = <<>> THEN <<>> ELSE <<s>>)
        ELSE <<SubSeq(s, 1, i - 1)>> \o SplitAll(SubSeq(s, i + 1, Len(s)))

\* A metadata block: 512 bytes with the magic at offset 257.
MetadataBlock(b) ==
    /\ Len(b) = TAR_BLOCK_SIZE
    /\ SubSeq(b, MagicOffset + 1, MagicOffset + 5) = ustar_magic

\* The reference lines of the blocks h, `run` being the payload run so far.
RECURSIVE RefLines(_, _)
RefLines(h, run) ==
    IF h = <<>> THEN SplitAll(run)
    ELSE IF MetadataBlock(Reads[Head(h)])
         THEN SplitAll(run) \o RefLines(Tail(h), <<>>)
         ELSE RefLines(Tail(h), run \o Reads[Head(h)])

FullBlocks(h) == \A k \in 1..(Len(h) - 1) : Len(Reads[h[k]]) = TAR_BLOCK_SIZE

AllValid(ls) == \A k \in 1..Len(ls) : from_utf8_ok(ls[k])

C14_ArchiveMatchesReference ==
    \A j \in Jobs :
        ( /\ TarFinished(j)
          /\ FullBlocks(hist[j])
          /\ from_utf8_ok(Stream(hist[j]))
          /\ AllValid(RefLines(hist[j], <<>>)) )
        => LinesOf(j) = RefLines(hist[j], <<>>)


(***************************************************************************)
(* C15.  Archive mode does not depend on how the decoder cuts the stream   *)
(* into reads: for a stream of valid text that holds no metadata block     *)
(* (the magic occurs nowhere in it), read to its end in reads of any       *)
(* sizes, the lines the handler received are those of the stream read in   *)
(* one piece: its pieces between newlines.                                 *)
(* A short read leaves the bytes of the read before it in the buffer, and  *)
(* "us" at offset 257 of the read followed by an older "tar" is taken for  *)
(* the magic.                                                              *)
(***************************************************************************)
\* The magic occurs nowhere in s, so that no cut of s yields a metadata block.
NoMagic(s) ==
    \A i \in 1..(Len(s) - 4) : SubSeq(s, i, i + 4) # ustar_magic

C15_ReadCutsDoNotMatter ==
    \A j \in Jobs :
        ( /\ TarFinished(j)
          /\ NoMagic(Stream(hist[j]))
          /\ from_utf8_ok(Stream(hist[j])) )
        => LinesOf(j) = SplitAll(Stream(hist[j]))

(***************************************************************************)
(* C16.  Plain mode and Archive mode agree on streams without archive      *)
(* structure: for a stream of valid text with no metadata block and no     *)
(* carriage return, read to its end, a job of either mode delivers the     *)
(* lines reader.lines() yields for that stream.                            *)
(* Plain mode does; Archive mode does not (C15).                           *)
(***************************************************************************)
\* BufRead::lines over the whole stream s: cut after each "\n", strip the
\* line end of each piece.
RECURSIVE reader_lines(_)
reader_lines(s) ==
    LET i == NextNewline(s, 1, Len(s))
    IN  IF i = 0 THEN (IF s = <<>> THEN <<>> ELSE <<StripLineEnd(s)>>)
        ELSE <<StripLineEnd(SubSeq(s, 1, i))>> \o reader_lines(SubSeq(s, i + 1, Len(s)))

NoCr(s) == \A i \in 1..Len(s) : s[i] # CR

PlainLike(s) == NoMagic(s) /\ NoCr(s) /\ from_utf8_ok(s)

C16_ModesAgree ==
    \A j \in Jobs :
        ((TarFinished(j) \/ PlainFinished(j)) /\ PlainLike(Stream(hist[j])))
        => LinesOf(j) = reader_lines(Stream(hist[j]))


(***************************************************************************)
(* C17.  Archive mode: at every point of a job the remainder holds no      *)
(* newline byte, and no line the handler received holds one.               *)
(***************************************************************************)
C17_NoNewlineKept ==
    \A j \in Jobs :
        mode[j] = "tar" =>
            /\ ~HasNewline(remainder[j])
            /\ \A k \in 1..Len(CallsOf(j)) : ~HasNewline(CallsOf(j)[k].line)

\* After the block "ab\n\ncd\n x.. \nef": four lines delivered, "ef" kept.
C17_Witness ==
    \E j \in Jobs :
        /\ mode[j] = "tar"
        /\ pc[j] = "read"
        /\ hist[j] = <<IdOf(PayA)>>
        /\ remainder[j] = <<101, 102>>
        /\ Len(CallsOf(j)) = 4
        /\ LinesOf(j)[2] = <<>>

=============================================================================
